---- MODULE Spec2Model ----
(***************************************************************************)
(* Model of web_scrapping.py: the retry loop of scrape_league_table and    *)
(* the batch loop of main.  The external crawler (crawler.arun), the       *)
(* filesystem and the wall clock are the environment: each fetch returns   *)
(* one of a few payloads or raises, the output directory accepts or        *)
(* rejects (I/O error) the writes of each kind of artifact, and a fetch    *)
(* takes zero or more clock units (the same in all fetches of a run).      *)
(***************************************************************************)
EXTENDS Integers, Sequences, FiniteSets, TLC

VARIABLES
    env,        \* the process environment and the caller's arguments (read only)
    mpc,        \* position of the caller (main, or the single-call test script)
    leagues,    \* main: leagues_to_scrape, the filtered catalog keys in order
    idx,        \* main: index in leagues of the league being processed
    results,    \* main: results dict, league key -> returned value
    events,     \* main: what the batch loop did, in order
    summary,    \* main: what the summary step computed
    spc,        \* scrape_league_table: idle / fetch / sleep / ret
    cur,        \* scrape_league_table: the arguments of the running call
    attempt,    \* scrape_league_table: the loop variable of range(retries)
    log,        \* scrape_league_table: one record per attempt of the running call
    retval,     \* scrape_league_table: the value handed to the caller
    files,      \* the output directory: file name -> content
    now         \* the wall clock, in the unit of the file-name timestamp

vars == <<env, mpc, leagues, idx, results, events, summary,
          spc, cur, attempt, log, retval, files, now>>

(***************************************************************************)
(* Bounds of the model.                                                    *)
(***************************************************************************)
NumLeagues == 2        \* leagues of the catalog the model keeps
MaxRetries == 3        \* largest retries argument of a direct call
MaxStandings == 2      \* longest standings list handed to the validator alone

(***************************************************************************)
(* Program constants.                                                      *)
(***************************************************************************)
MainRetries == 3       \* main passes retries=3
PaceDelay == 3         \* asyncio.sleep(3) between leagues
DefaultTier == 1       \* LEAGUE_TIER defaults to "1"

Last(s) == s[Len(s)]

RECURSIVE Pow2(_)
Pow2(n) == IF n <= 0 THEN 1 ELSE 2 * Pow2(n - 1)

(***************************************************************************)
(* The league catalog, EUROPEAN_LEAGUES: an excerpt in declared order.     *)
(* "Super Lig" is the one key whose display name differs from the key      *)
(* (the display name has a u-umlaut, written "Sueper Lig" here).           *)
(***************************************************************************)
FullCatalog ==
    << [key |-> "Super Lig",        name |-> "Sueper Lig",       tier |-> 1],
       [key |-> "EFL Championship", name |-> "EFL Championship", tier |-> 2],
       [key |-> "2. Bundesliga",    name |-> "2. Bundesliga",    tier |-> 2],
       [key |-> "Allsvenskan",      name |-> "Allsvenskan",      tier |-> 1],
       [key |-> "Eliteserien",      name |-> "Eliteserien",      tier |-> 1] >>

EUROPEAN_LEAGUES == SubSeq(FullCatalog, 1, NumLeagues)

Keys == {EUROPEAN_LEAGUES[i].key : i \in 1..Len(EUROPEAN_LEAGUES)}

Info(k) == CHOOSE e \in {EUROPEAN_LEAGUES[i] : i \in 1..Len(EUROPEAN_LEAGUES)} : e.key = k

(***************************************************************************)
(* The schema: LeagueTableEntry and LeagueTableData.  A payload is the     *)
(* extracted dict: the set of top-level fields it holds and its standings. *)
(* An entry keeps the three validated fields.                              *)
(***************************************************************************)
Strip(s) == CASE s = " "   -> ""
              [] s = " A " -> "A"
              [] OTHER     -> s

validate_position(v) == v >= 1

\* Variant: the points validator accepts every value.
validate_points_Lax(v) == TRUE

validate_points(v) == v >= 0

\* Variant: the team name is tested without trimming it.
validate_team_name_NoStrip(v) == ~(v = "")

validate_team_name(v) == ~(v = "" \/ Strip(v) = "")

EntryValid(e) ==
    /\ validate_position(e.position)
    /\ validate_team_name(e.team_name)
    /\ validate_points(e.points)

RequiredFields == {"sport", "league", "standings"}

\* LeagueTableData(**payload) does not raise
IsValid(p) ==
    /\ RequiredFields \subseteq p.fields
    /\ \A i \in 1..Len(p.standings) : EntryValid(p.standings[i])

\* validated_data.to_dict(): order and length kept, team names stripped
ToDict(p) ==
    [p EXCEPT !.standings =
        [i \in 1..Len(p.standings) |->
            [p.standings[i] EXCEPT !.team_name = Strip(p.standings[i].team_name)]]]

\* Variant: an empty extraction result is processed like a payload.
Truthy_Always(p) == TRUE

\* `if result.extracted_data:`
Truthy(p) == p.fields # {}

Entry(pos, nm, pts) == [position |-> pos, team_name |-> nm, points |-> pts]

Payload(fs, st) == [fields |-> fs, standings |-> st]

NoData == Payload({}, <<>>)

GoodPayload == Payload(RequiredFields, <<Entry(1, " A ", 25)>>)

NegPointsPayload == Payload(RequiredFields, <<Entry(1, "A", -1)>>)

\* what crawler.arun can hand back as result.extracted_data
FetchPayloads == {NoData, GoodPayload, NegPointsPayload}

\* the outcomes of `await crawler.arun(...)`: it raises, or returns a payload
FetchOutcomes == {[raised |-> TRUE, data |-> NoData]}
                 \cup {[raised |-> FALSE, data |-> p] : p \in FetchPayloads}

(***************************************************************************)
(* Values handed back by scrape_league_table.                              *)
(***************************************************************************)
NoRet == [k |-> "pending", v |-> NoData]

NoneVal == [k |-> "None", v |-> NoData]

Raised == [k |-> "raised", v |-> NoData]

DataVal(d) == [k |-> "data", v |-> d]

(***************************************************************************)
(* Artifact names: {safe_league_name}_table_{timestamp}.json and           *)
(* debug_raw_{timestamp}.json.                                             *)
(***************************************************************************)
TableFile(league, ts) == [kind |-> "table", league |-> league, ts |-> ts]

DebugFile(league, ts) == [kind |-> "debug", league |-> "", ts |-> ts]

WriteFile(fs, name, content) == (name :> content) @@ fs

NoFiles == [f \in {} |-> NoData]

(***************************************************************************)
(* Configuration helpers of main.                                          *)
(***************************************************************************)
\* league_key.upper().replace(" ", "_").replace(".", "").replace("-", "_") + "_URL"
get_league_env_var_name(k) ==
    CASE k = "Super Lig"        -> "SUPER_LIG_URL"
      [] k = "EFL Championship" -> "EFL_CHAMPIONSHIP_URL"
      [] k = "2. Bundesliga"    -> "2_BUNDESLIGA_URL"
      [] k = "Allsvenskan"      -> "ALLSVENSKAN_URL"
      [] k = "Eliteserien"      -> "ELITESERIEN_URL"
      [] OTHER                  -> "_URL"

\* The characters of the strings the URL construction works on.  (The
\* scheme and host of a base URL are one piece: only its trailing separators
\* matter.)
Chars(s) ==
    CASE s = "Sueper Lig"       -> <<"S","u","e","p","e","r"," ","L","i","g">>
      [] s = "EFL Championship" -> <<"E","F","L"," ","C","h","a","m","p","i","o","n","s","h","i","p">>
      [] s = "2. Bundesliga"    -> <<"2","."," ","B","u","n","d","e","s","l","i","g","a">>
      [] s = "Allsvenskan"      -> <<"A","l","l","s","v","e","n","s","k","a","n">>
      [] s = "Eliteserien"      -> <<"E","l","i","t","e","s","e","r","i","e","n">>
      [] s = "Premier League"   -> <<"P","r","e","m","i","e","r"," ","L","e","a","g","u","e">>
      [] s = "https://x.com"    -> <<"https://x.com">>
      [] s = "https://x.com/"   -> <<"https://x.com", "/">>
      [] s = "https://x.com//"  -> <<"https://x.com", "/", "/">>
      [] s = ""                 -> <<>>
      [] OTHER                  -> <<s>>

\* str.lower() on one character
LowerChar(c) ==
    CASE c = "A" -> "a" [] c = "B" -> "b" [] c = "C" -> "c" [] c = "E" -> "e"
      [] c = "F" -> "f" [] c = "L" -> "l" [] c = "P" -> "p" [] c = "S" -> "s"
      [] OTHER -> c

Lower(cs) == [i \in 1..Len(cs) |-> LowerChar(cs[i])]

\* str.replace(c, d) for single characters c and d
ReplaceChar(cs, c, d) == [i \in 1..Len(cs) |-> IF cs[i] = c THEN d ELSE cs[i]]

\* str.replace(c, ''): every occurrence of the character c is dropped
RemoveChar(cs, c) == LET Keep(x) == x # c IN SelectSeq(cs, Keep)

\* league_name.lower().replace(' ', '-').replace('.', '')
Slug(nm) == RemoveChar(ReplaceChar(Lower(Chars(nm)), " ", "-"), ".")

\* str.rstrip(c) on a sequence of characters: up to the last character
\* that is not c
RStripChars(cs, c) ==
    LET kept == {i \in 1..Len(cs) : cs[i] # c}
        n == IF kept = {} THEN 0 ELSE CHOOSE i \in kept : \A j \in kept : j <= i
    IN  SubSeq(cs, 1, n)

\* base_url.rstrip('/')
RStrip(b) == RStripChars(Chars(b), "/")

\* f"{base_url.rstrip('/')}/{slug}"
PatternUrl(base, nm) == RStrip(base) \o <<"/">> \o Slug(nm)

NoUrl == <<>>

\* Variant: the URL is built from the base URL without testing that one is set.
ResolveUrl_NoBaseCheck(e, k) ==
    LET url == e.overrides[get_league_env_var_name(k)]
    IN  IF url # "" THEN <<url>>
        ELSE PatternUrl(e.base_url, Info(k).name)

\* Variant: the base-URL pattern is preferred to the league's override.
ResolveUrl_BaseFirst(e, k) ==
    LET url == e.overrides[get_league_env_var_name(k)]
    IN  IF e.base_url # "" THEN PatternUrl(e.base_url, Info(k).name)
        ELSE IF url # "" THEN <<url>>
        ELSE NoUrl

\* the URL main passes to scrape_league_table for league key k, or NoUrl
ResolveUrl(e, k) ==
    LET url == e.overrides[get_league_env_var_name(k)]
    IN  IF url # "" THEN <<url>>
        ELSE IF e.base_url # "" THEN PatternUrl(e.base_url, Info(k).name)
        ELSE NoUrl

\* Variant: the tier filter keeps every league.
get_leagues_by_tier_All(cat, tier) == cat

get_leagues_by_tier(cat, tier) ==
    LET Keep(e) == e.tier = tier IN SelectSeq(cat, Keep)

InList(x, lst) == \E i \in 1..Len(lst) : lst[i] = x

\* Variant: the selected leagues are taken in the order SELECTED_LEAGUES
\* names them.
LeaguesToScrape_ListOrder(e) ==
    LET byTier == IF e.tier > 0 THEN get_leagues_by_tier(EUROPEAN_LEAGUES, e.tier)
                  ELSE EUROPEAN_LEAGUES
        Named(x) == {byTier[i] : i \in {n \in 1..Len(byTier) :
                                          byTier[n].key = x \/ byTier[n].name = x}}
        Hit(x) == Named(x) # {}
        named == SelectSeq(e.selected, Hit)
    IN  IF e.selected = <<>>
        THEN [i \in 1..Len(byTier) |-> byTier[i].key]
        ELSE [i \in 1..Len(named) |-> (CHOOSE l \in Named(named[i]) : TRUE).key]

\* the tier filter, then the SELECTED_LEAGUES filter; catalog order is kept
LeaguesToScrape(e) ==
    LET byTier == IF e.tier > 0 THEN get_leagues_by_tier(EUROPEAN_LEAGUES, e.tier)
                  ELSE EUROPEAN_LEAGUES
        Keep(l) == InList(l.key, e.selected) \/ InList(l.name, e.selected)
        chosen == IF e.selected # <<>> THEN SelectSeq(byTier, Keep) ELSE byTier
    IN  [i \in 1..Len(chosen) |-> chosen[i].key]

(***************************************************************************)
(* The environment: what the process reads from os.environ, what the       *)
(* output directory rejects, how long a fetch takes, and the arguments of  *)
(* a direct call of scrape_league_table (quick_test.py).                   *)
(***************************************************************************)
VarNames == {get_league_env_var_name(k) : k \in Keys}

\* the output directory accepts every write, rejects the success artifacts
\* (the league name gives no valid file name), or rejects every write
FsFaults == {"none", "table", "all"}

\* a fetch returns within the clock unit it started in, or in the next one
\* (only whether the timestamp moved matters to the file names)
FetchTimes == {0, 1}

\* the filesystem and the fetch duration of a batch run
RunConditions ==
    {[fs_fault |-> f, fetch_time |-> 0] : f \in FsFaults}
    \cup {[fs_fault |-> "none", fetch_time |-> 1]}

\* the per-league override variables: only the one named w is set
OverrideFor(w) == [v \in VarNames |-> IF v = w THEN "https://o.example/table" ELSE ""]

\* the URL configuration of a batch run: no base URL and at most one
\* override, or a base URL with or without an override for the first league
UrlConfigs ==
    {[base_url |-> "", overrides |-> OverrideFor(w)] : w \in VarNames \cup {""}}
    \cup {[base_url |-> "https://x.com/", overrides |-> OverrideFor(w)] :
            w \in {"", get_league_env_var_name(EUROPEAN_LEAGUES[1].key)}}

SelectedChoices ==
    { <<>>,
      <<"Sueper Lig">>,
      <<"EFL Championship", "Super Lig">>,
      <<"EFL Championship">> }

MainEnvs ==
    { [ mode |-> "main",
        OPENAI_API_KEY |-> key,
        fs_fault |-> rc.fs_fault, fetch_time |-> rc.fetch_time,
        base_url |-> u.base_url,
        overrides |-> u.overrides,
        tier |-> t,
        selected |-> sel,
        league |-> "", retries |-> MainRetries, save |-> TRUE ] :
      key \in BOOLEAN, rc \in RunConditions, u \in UrlConfigs,
      t \in 0..2, sel \in SelectedChoices }

DirectEnvs ==
    [ mode : {"direct"},
      OPENAI_API_KEY : BOOLEAN,
      fs_fault : FsFaults, fetch_time : FetchTimes,
      base_url : {""},
      overrides : {OverrideFor("")},
      tier : {DefaultTier},
      selected : {<<>>},
      league : {"Premier League"}, retries : (-1)..MaxRetries, save : BOOLEAN ]

NoCall == [league |-> "", url |-> NoUrl, retries |-> 0, save |-> FALSE]

NoSummary == [successful |-> 0, total |-> 0, listed |-> <<>>]

Init ==
    /\ env \in MainEnvs \cup DirectEnvs
    /\ mpc = "start"
    /\ leagues = <<>>
    /\ idx = 0
    /\ results = [k \in {} |-> NoneVal]
    /\ events = <<>>
    /\ summary = NoSummary
    /\ spc = "idle"
    /\ cur = NoCall
    /\ attempt = 0
    /\ log = <<>>
    /\ retval = NoRet
    /\ files = NoFiles
    /\ now = 0

(***************************************************************************)
(* scrape_league_table.                                                    *)
(***************************************************************************)
\* Variant: the credential check is left out.
CredentialOk_Skip(e) == TRUE

\* `if not api_key: return None`
CredentialOk(e) == e.OPENAI_API_KEY

\* Variant: the loop runs one iteration too many.
MoreAttempts_OffByOne(a, n) == a + 1 <= n

\* `for attempt in range(retries)`: is there an iteration after attempt a
MoreAttempts(a, n) == a + 1 < n

\* Variant: the handler also waits after the final attempt.
ShouldBackoff_Always(a, n) == a < n

\* `if attempt < retries - 1:` in the handler of a raised attempt
ShouldBackoff(a, n) == a < n - 1

\* `wait_time = 2 ** attempt`
WaitTime(a) == Pow2(a)

\* `if save_to_file:` in the handler of a failed validation
DebugOnFailure(save) == save

\* `if save_to_file:` after a successful validation
SaveOnSuccess(save) == save

\* The body of one loop iteration, from the return of crawler.arun to the
\* next suspension point.  c: the call's arguments, a: attempt, fs: the
\* output directory, t: the clock, r: the fetch outcome, f1 / f2: whether
\* the write of the success / the debug artifact raises (open or json.dump).  Gives the attempt's log entry, the directory afterwards, what
\* comes next (ret / sleep / iter) and the returned value.
AttemptStep(c, a, fs, t, r, f1, f2) ==
    LET p        == r.data
        hasData  == ~r.raised /\ Truthy(p)
        valid    == hasData /\ IsValid(p)
        tryTable == valid /\ SaveOnSuccess(c.save)
        tableOk  == tryTable /\ ~f1
        returned == valid /\ (tryTable => ~f1)
        inner    == hasData /\ ~returned
        tryDebug == inner /\ DebugOnFailure(c.save)
        debugOk  == tryDebug /\ ~f2
        outer    == r.raised \/ (tryDebug /\ f2)
        fs1      == IF tableOk THEN WriteFile(fs, TableFile(c.league, t), ToDict(p)) ELSE fs
        fs2      == IF debugOk THEN WriteFile(fs1, DebugFile(c.league, t), p) ELSE fs1
    IN  [ entry |-> [ kind |-> IF r.raised THEN "raise"
                               ELSE IF ~hasData THEN "empty"
                               ELSE IF valid THEN "valid" ELSE "invalid",
                      raised |-> r.raised,
                      data |-> p,
                      succ |-> IF tableOk THEN "written"
                               ELSE IF tryTable THEN "fault" ELSE "none",
                      dbg  |-> IF debugOk THEN "written"
                               ELSE IF tryDebug THEN "fault" ELSE "none",
                      at   |-> t,
                      wait |-> 0 ],
          files |-> fs2,
          next  |-> IF returned THEN "ret"
                    ELSE IF outer /\ ShouldBackoff(a, c.retries) THEN "sleep"
                    ELSE "iter",
          ret   |-> IF returned THEN DataVal(ToDict(p)) ELSE NoRet ]

\* Variant: exhaustion is raised to the caller instead of returning None.
ExhaustedValue_Raise == Raised

\* `return None` after the loop
ExhaustedValue == NoneVal

\* entry of the function up to the first suspension point
ScrapeEntry(league, url, retries, save) ==
    /\ cur' = [league |-> league, url |-> url, retries |-> retries, save |-> save]
    /\ log' = <<>>
    /\ attempt' = 0
    /\ IF ~CredentialOk(env)
       THEN spc' = "ret" /\ retval' = NoneVal
       ELSE IF 0 < retries
       THEN spc' = "fetch" /\ retval' = NoRet
       ELSE spc' = "ret" /\ retval' = ExhaustedValue

\* the loop goes to its next iteration, or falls out to `return None`
NextIteration ==
    IF MoreAttempts(attempt, cur.retries)
    THEN attempt' = attempt + 1 /\ spc' = "fetch" /\ retval' = retval
    ELSE attempt' = attempt /\ spc' = "ret" /\ retval' = ExhaustedValue

\* one attempt: crawler.arun, validation, the artifact writes
Attempt ==
    /\ spc = "fetch"
    /\ \E r \in FetchOutcomes :
         LET t == now + env.fetch_time
             o == AttemptStep(cur, attempt, files, t, r,
                              env.fs_fault # "none", env.fs_fault = "all")
         IN  /\ now' = t
             /\ files' = o.files
             /\ log' = Append(log, o.entry)
             /\ CASE o.next = "ret"   -> attempt' = attempt /\ spc' = "ret" /\ retval' = o.ret
                  [] o.next = "sleep" -> attempt' = attempt /\ spc' = "sleep" /\ retval' = retval
                  [] OTHER            -> NextIteration
    /\ UNCHANGED <<env, mpc, leagues, idx, results, events, summary, cur>>

\* `await asyncio.sleep(wait_time)` returns
Backoff ==
    /\ spc = "sleep"
    /\ now' = now + WaitTime(attempt)
    /\ log' = [log EXCEPT ![Len(log)].wait = WaitTime(attempt)]
    /\ NextIteration
    /\ UNCHANGED <<env, mpc, leagues, idx, results, events, summary, cur, files>>

(***************************************************************************)
(* main: the batch loop.                                                   *)
(***************************************************************************)
CallFrameIdle ==
    /\ spc' = "idle"
    /\ cur' = NoCall
    /\ attempt' = 0
    /\ log' = <<>>
    /\ retval' = NoRet

\* configuration, tier filter, allow-list filter, `results = {}`
MainStart ==
    /\ env.mode = "main"
    /\ mpc = "start"
    /\ leagues' = LeaguesToScrape(env)
    /\ idx' = 1
    /\ mpc' = "iter"
    /\ UNCHANGED <<env, results, events, summary, spc, cur, attempt, log, retval, files, now>>

\* Variant: the pacing delay follows every extraction.
ShouldPace_Always(k, ls) == TRUE

\* `if league_key != list(leagues_to_scrape.keys())[-1]`
ShouldPace(k, ls) == k # Last(ls)

\* `if result:` ... `else: results[league_key] = None`
Recorded(rv) == IF rv.k = "data" THEN rv ELSE NoneVal

\* head of the for loop: resolve the URL, skip the league or call the extractor
MainIter ==
    /\ env.mode = "main"
    /\ mpc = "iter"
    /\ IF idx > Len(leagues)
       THEN /\ mpc' = "summary"
            /\ UNCHANGED <<idx, events, spc, cur, attempt, log, retval>>
       ELSE LET k   == leagues[idx]
                url == ResolveUrl(env, k)
            IN  IF url = NoUrl
                THEN /\ events' = Append(events, <<"skip", k>>)
                     /\ idx' = idx + 1
                     /\ UNCHANGED <<mpc, spc, cur, attempt, log, retval>>
                ELSE /\ events' = Append(events, <<"call", k>>)
                     /\ mpc' = "await"
                     /\ idx' = idx
                     /\ ScrapeEntry(Info(k).name, url, MainRetries, TRUE)
    /\ UNCHANGED <<env, leagues, results, summary, files, now>>

\* scrape_league_table returned: record the result, decide on the pacing delay
MainRecord ==
    /\ env.mode = "main"
    /\ mpc = "await"
    /\ spc = "ret"
    /\ LET k == leagues[idx]
       IN  IF retval.k = "raised"
           THEN /\ mpc' = "crashed"
                /\ UNCHANGED <<results, events, idx>>
           ELSE /\ results' = (k :> Recorded(retval)) @@ results
                /\ events' = Append(events, <<"ret", k>>)
                /\ IF ShouldPace(k, leagues)
                   THEN mpc' = "pace" /\ idx' = idx
                   ELSE mpc' = "iter" /\ idx' = idx + 1
    /\ CallFrameIdle
    /\ UNCHANGED <<env, leagues, summary, files, now>>

\* `await asyncio.sleep(3)` returns
MainPace ==
    /\ env.mode = "main"
    /\ mpc = "pace"
    /\ now' = now + PaceDelay
    /\ events' = Append(events, <<"pace", leagues[idx]>>)
    /\ idx' = idx + 1
    /\ mpc' = "iter"
    /\ UNCHANGED <<env, leagues, results, summary, spc, cur, attempt, log, retval, files>>

\* the summary: successful / total, and the per-tier listing of results
Summarize(ls, res) ==
    LET Listed(l) == l \in DOMAIN res
        inOrder == SelectSeq(ls, Listed)
    IN  [ successful |-> Cardinality({k \in DOMAIN res : res[k].k = "data"}),
          total |-> Len(ls),
          listed |-> [i \in 1..Len(inOrder) |->
                        [key |-> inOrder[i], tier |-> Info(inOrder[i]).tier,
                         ok |-> res[inOrder[i]].k = "data"]] ]

MainSummary ==
    /\ env.mode = "main"
    /\ mpc = "summary"
    /\ summary' = Summarize(leagues, results)
    /\ mpc' = "done"
    /\ UNCHANGED <<env, leagues, idx, results, events, spc, cur, attempt, log, retval, files, now>>

(***************************************************************************)
(* A direct call of scrape_league_table, as quick_test.py makes it.        *)
(***************************************************************************)
DirectCall ==
    /\ env.mode = "direct"
    /\ mpc = "start"
    /\ mpc' = "await"
    /\ ScrapeEntry(env.league, <<"https://www.fctables.com/premier-league">>,
                   env.retries, env.save)
    /\ UNCHANGED <<env, leagues, idx, results, events, summary, files, now>>

DirectReturn ==
    /\ env.mode = "direct"
    /\ mpc = "await"
    /\ spc = "ret"
    /\ mpc' = IF retval.k = "raised" THEN "crashed" ELSE "done"
    /\ UNCHANGED <<env, leagues, idx, results, events, summary,
                   spc, cur, attempt, log, retval, files, now>>

Next ==
    \/ MainStart
    \/ MainIter
    \/ Attempt
    \/ Backoff
    \/ MainRecord
    \/ MainPace
    \/ MainSummary
    \/ DirectCall
    \/ DirectReturn

Spec == Init /\ [][Next]_vars

\* The event loop runs the one coroutine on: a sleep returns, and
\* crawler.arun returns or raises (no fetch hangs for ever).
FairSpec == Spec /\ WF_vars(Next)

(***************************************************************************)
(* The validator on its own: the LeagueTableData constructor applied to   *)
(* one payload, out of a wider set than the fetches of a batch run return. *)
(***************************************************************************)
ValidatorEntries ==
    {Entry(pos, nm, pts) : pos \in {0, 1, 2}, nm \in {"", " ", " A ", "B"},
                           pts \in {-1, 0, 25}}

ValidatorInputs ==
    {Payload(fs, st) :
        fs \in {RequiredFields, RequiredFields \cup {"season"}, {"league", "standings"}},
        st \in UNION {[1..n -> ValidatorEntries] : n \in 0..MaxStandings}}

ValidationError == [k |-> "ValidationError", v |-> NoData]

ValidateEnv ==
    [ mode |-> "validate", OPENAI_API_KEY |-> TRUE,
      fs_fault |-> "none", fetch_time |-> 0,
      base_url |-> "", overrides |-> OverrideFor(""),
      tier |-> DefaultTier, selected |-> <<>>,
      league |-> "", retries |-> 0, save |-> FALSE ]

\* the payload to validate is held as the data of one log record
ValidateInit ==
    /\ env = ValidateEnv
    /\ mpc = "start"
    /\ leagues = <<>>
    /\ idx = 0
    /\ results = [k \in {} |-> NoneVal]
    /\ events = <<>>
    /\ summary = NoSummary
    /\ spc = "idle"
    /\ cur = NoCall
    /\ attempt = 0
    /\ \E p \in ValidatorInputs :
         log = << [kind |-> "payload", raised |-> FALSE, data |-> p,
                   succ |-> "none", dbg |-> "none", at |-> 0, wait |-> 0] >>
    /\ retval = NoRet
    /\ files = NoFiles
    /\ now = 0

\* `validated_data = LeagueTableData(**result.extracted_data)` and to_dict()
Validate ==
    /\ env.mode = "validate"
    /\ mpc = "start"
    /\ retval' = IF IsValid(log[1].data) THEN DataVal(ToDict(log[1].data))
                 ELSE ValidationError
    /\ mpc' = "done"
    /\ UNCHANGED <<env, leagues, idx, results, events, summary,
                   spc, cur, attempt, log, files, now>>

ValidateNext == Validate

ValidateSpec == ValidateInit /\ [][ValidateNext]_vars

(***************************************************************************)
(* Properties.  The preconditions are stated on what the environment       *)
(* handed in (the logged fetch outcome, the configuration), not on the     *)
(* model's own classification of it.                                       *)
(***************************************************************************)
Attempts == 1..Len(log)

\* the fetch of a logged attempt returned a non-empty payload
GotPayload(e) == ~e.raised /\ e.data.fields # {}

\* the schema of section 4.1, stated on the payload itself
SchemaViolated(p) ==
    \/ ~(RequiredFields \subseteq p.fields)
    \/ \E i \in 1..Len(p.standings) :
         \/ p.standings[i].position < 1
         \/ p.standings[i].points < 0
         \/ p.standings[i].team_name \in {"", " "}

FailedKind(e) == e.raised \/ e.data.fields = {} \/ SchemaViolated(e.data)

\* neither an override variable nor a base URL is configured for league k
Unconfigured(k) ==
    /\ env.overrides[get_league_env_var_name(k)] = ""
    /\ env.base_url = ""

Called(k) == InList(<<"call", k>>, events)

\* C1: a call with retries = N makes at most N fetch calls; with N < 1 it
\* makes none and returns None.
C1_AtMostNFetches ==
    /\ Len(log) <= (IF cur.retries > 0 THEN cur.retries ELSE 0)
    /\ (spc = "fetch") => (attempt < cur.retries /\ Len(log) = attempt)
    /\ (spc = "ret" /\ cur.retries < 1) => (log = <<>> /\ retval = NoneVal)

C1_Witness ==
    /\ spc = "ret"
    /\ cur.retries = MaxRetries
    /\ Len(log) = MaxRetries

\* C2 (as claimed): every failed attempt that is followed by another attempt
\* is followed first by a backoff wait of 2^i, whatever the kind of failure.
C2_BackoffAfterEveryFailure ==
    \A j \in Attempts : j < Len(log) => log[j].wait = Pow2(j - 1)

\* C3: when every attempt fails (fetch error, empty payload or validation
\* failure, in any mix) and retries = N >= 1, the call makes exactly N
\* attempts, does not wait after the N-th, and returns None, not an error.
C3_ExhaustionReturnsNone ==
    /\ (spc = "sleep") => (attempt < cur.retries - 1)
    /\ ( /\ spc = "ret"
         /\ env.OPENAI_API_KEY
         /\ cur.retries >= 1
         /\ \A j \in Attempts : FailedKind(log[j]) )
       => ( /\ Len(log) = cur.retries
            /\ Last(log).wait = 0
            /\ retval = NoneVal )

C3_Witness ==
    /\ spc = "ret"
    /\ cur.retries = 3
    /\ Len(log) = 3
    /\ log[1].raised
    /\ ~log[2].raised /\ log[2].data.fields = {}
    /\ GotPayload(log[3]) /\ SchemaViolated(log[3].data)
    /\ retval = NoneVal

\* C4 (as claimed): success is terminal.  An attempt whose payload validates
\* is the last attempt of the call: the success artifact write is issued
\* (when save_to_file is on), no debug artifact is written, no wait follows
\* and the validated data is returned.
C4_SuccessIsTerminal ==
    \A j \in Attempts :
        (GotPayload(log[j]) /\ ~SchemaViolated(log[j].data))
        => ( /\ j = Len(log)
             /\ spc = "ret"
             /\ retval = DataVal(ToDict(log[j].data))
             /\ log[j].wait = 0
             /\ log[j].dbg = "none"
             /\ cur.save => log[j].succ # "none" )

\* what an attempt with a schema-violating payload does, whatever the
\* filesystem: no success artifact, nothing raised, one failed attempt
InvalidAttemptContained(j) ==
    /\ log[j].succ = "none"
    /\ (j = Len(log)) => (TableFile(cur.league, log[j].at) \notin DOMAIN files)
    /\ (j = Len(log)) => (retval.k \in {"pending", "None"})
    /\ Len(log) <= cur.retries
    /\ (j = Len(log) /\ spc = "ret") => (j = cur.retries /\ retval = NoneVal)

\* C5 (as claimed): an attempt (save_to_file on) whose payload violates the
\* schema writes no success artifact, writes a debug artifact holding the raw
\* payload, raises nothing and counts as one failed attempt.
C5_InvalidWritesDebug ==
    \A j \in Attempts :
        (GotPayload(log[j]) /\ SchemaViolated(log[j].data) /\ cur.save)
        => ( /\ InvalidAttemptContained(j)
             /\ log[j].dbg = "written"
             /\ j = Len(log) => ( /\ DebugFile(cur.league, log[j].at) \in DOMAIN files
                                  /\ files[DebugFile(cur.league, log[j].at)] = log[j].data ) )

\* C5 (amended): as claimed, except that the debug artifact is written unless
\* the output directory rejects the write; when the write raises, the error
\* stays inside the call and the attempt still counts as one failed attempt.
C5_InvalidWritesDebugUnlessRejected ==
    \A j \in Attempts :
        (GotPayload(log[j]) /\ SchemaViolated(log[j].data) /\ cur.save)
        => ( /\ InvalidAttemptContained(j)
             /\ log[j].dbg = (IF env.fs_fault = "all" THEN "fault" ELSE "written")
             /\ (j = Len(log) /\ log[j].dbg = "written")
                => ( /\ DebugFile(cur.league, log[j].at) \in DOMAIN files
                     /\ files[DebugFile(cur.league, log[j].at)] = log[j].data ) )

C5_Witness ==
    /\ Len(log) = 2
    /\ cur.save
    /\ GotPayload(log[2]) /\ SchemaViolated(log[2].data)
    /\ log[2].dbg = "written"
    /\ files[DebugFile(cur.league, log[2].at)] = NegPointsPayload

\* C6: an attempt whose fetch raised, or returned no payload, writes neither
\* a debug nor a success artifact; it only counts as a failed attempt.
C6_NoArtifactWithoutPayload ==
    \A j \in Attempts :
        (log[j].raised \/ log[j].data.fields = {})
        => ( /\ log[j].succ = "none"
             /\ log[j].dbg = "none"
             /\ (j = 1 /\ Len(log) = 1 /\ DOMAIN results = {}) => files = NoFiles
             /\ (j = Len(log)) => (retval.k \in {"pending", "None"})
             /\ (j = Len(log) /\ spc = "ret") => (j = cur.retries /\ retval = NoneVal) )

C6_Witness ==
    /\ Len(log) = 2
    /\ log[1].raised
    /\ ~log[2].raised /\ log[2].data.fields = {}
    /\ files = NoFiles

\* C7: without an API credential a batch run makes no fetch call and writes
\* no artifact, whatever the leagues.
C7_NoCredentialNoFetch ==
    ~env.OPENAI_API_KEY
    => ( /\ log = <<>>
         /\ spc \notin {"fetch", "sleep"}
         /\ files = NoFiles )

C7_Witness ==
    /\ env.mode = "main"
    /\ ~env.OPENAI_API_KEY
    /\ mpc = "done"
    /\ \E k1 \in Keys, k2 \in Keys : k1 # k2 /\ Called(k1) /\ Called(k2)

\* C8 (as claimed): without an API credential the batch aborts before it
\* processes any league: no league gets a "failed" entry and no pacing delay
\* is performed.
C8_MissingCredentialAborts ==
    (env.mode = "main" /\ ~env.OPENAI_API_KEY)
    => ( /\ DOMAIN results = {}
         /\ mpc # "pace"
         /\ \A i \in 1..Len(events) : events[i][1] # "pace" )

\* every league that was passed to the extractor has an entry in results
AttemptedRecorded == \A k \in Keys : Called(k) => k \in DOMAIN results

\* every league of the filtered set that has a URL was passed to the extractor
AllProcessed ==
    \A i \in 1..Len(leagues) : ~Unconfigured(leagues[i]) => Called(leagues[i])

\* C9: failures are contained per league: whatever the per-league outcomes,
\* the batch goes on after a failure and reaches the summary step with an
\* entry for every league it attempted.
C9_BatchCompletes ==
    (env.mode = "main" /\ mpc = "start")
    ~> ( /\ mpc = "done"
         /\ AllProcessed
         /\ AttemptedRecorded
         /\ summary.total = Len(leagues)
         /\ Len(summary.listed) = Cardinality(DOMAIN results) )

C9_Witness ==
    /\ env.mode = "main"
    /\ env.OPENAI_API_KEY
    /\ mpc = "done"
    /\ Cardinality(DOMAIN results) >= 2
    /\ \A k \in DOMAIN results : results[k] = NoneVal

PacedAfter(i) ==
    \/ i < Len(events) /\ events[i + 1] = <<"pace", events[i][2]>>
    \/ i = Len(events) /\ mpc = "pace"

\* C11: the inter-league pacing delay is performed after a league's
\* extraction exactly when the league is not the last one of the filtered
\* set: never after the last league, once after every other extracted league,
\* and at no other place.
C11_PaceIffNotLast ==
    /\ \A i \in 1..Len(events) :
         /\ (events[i][1] = "ret") => (PacedAfter(i) <=> events[i][2] # Last(leagues))
         /\ (events[i][1] = "pace")
            => (i > 1 /\ events[i - 1] = <<"ret", events[i][2]>>)
    /\ \A k \in Keys :
         Cardinality({i \in 1..Len(events) : events[i] = <<"pace", k>>}) <= 1
    /\ (mpc = "pace") => (events # <<>> /\ Last(events) = <<"ret", leagues[idx]>>)

C11_Witness ==
    /\ mpc = "done"
    /\ Len(leagues) = 2
    /\ Len(events) = 5
    /\ events[2] = <<"ret", leagues[1]>>
    /\ events[3] = <<"pace", leagues[1]>>
    /\ events[5] = <<"ret", leagues[2]>>

\* the place of league key k in the catalog's declared order
CatIndex(k) == CHOOSE i \in 1..Len(EUROPEAN_LEAGUES) : EUROPEAN_LEAGUES[i].key = k

\* league k ran to completion (returned, or was skipped) before event j
CompletedBefore(k, j) ==
    \E i \in 1..(j - 1) : events[i] \in {<<"ret", k>>, <<"skip", k>>}

\* C12: extraction calls are issued in the catalog's declared order: the
\* filtered set keeps that order, and when the call for league B begins, every
\* league of the filtered set declared before B has run to completion
\* (returned or skipped) and is not touched again, whatever the order of the
\* allow-list.
C12_CatalogOrder ==
    /\ \A a, b \in 1..Len(leagues) :
         a < b => CatIndex(leagues[a]) < CatIndex(leagues[b])
    /\ \A j \in 1..Len(events) :
         (events[j][1] = "call")
         => \A a \in 1..Len(leagues) :
              CatIndex(leagues[a]) < CatIndex(events[j][2])
              => ( /\ CompletedBefore(leagues[a], j)
                   /\ \A i \in j..Len(events) : events[i][2] # leagues[a] )
    /\ (spc # "idle" /\ env.mode = "main")
       => (events # <<>> /\ Last(events) = <<"call", leagues[idx]>>)

C12_Witness ==
    /\ mpc = "done"
    /\ env.selected = <<"EFL Championship", "Super Lig">>
    /\ Len(events) >= 4
    /\ events[1] = <<"call", "Super Lig">>
    /\ CompletedBefore("Super Lig", 3)
    /\ \E j \in 3..Len(events) : events[j] = <<"call", "EFL Championship">>

\* the slug of each league's display name, written out
ExpectedSlug(k) ==
    CASE k = "Super Lig"        -> <<"s","u","e","p","e","r","-","l","i","g">>
      [] k = "EFL Championship" -> <<"e","f","l","-","c","h","a","m","p","i","o","n","s","h","i","p">>
      [] k = "2. Bundesliga"    -> <<"2","-","b","u","n","d","e","s","l","i","g","a">>
      [] k = "Allsvenskan"      -> <<"a","l","l","s","v","e","n","s","k","a","n">>
      [] k = "Eliteserien"      -> <<"e","l","i","t","e","s","e","r","i","e","n">>

\* the URL the precedence rule gives league k: the override verbatim, else
\* the stripped base URL, one "/" and the slug, else none
ExpectedUrl(k) ==
    LET ov == env.overrides[get_league_env_var_name(k)]
    IN  IF ov # "" THEN <<ov>>
        ELSE IF env.base_url = "https://x.com/" THEN <<"https://x.com", "/">> \o ExpectedSlug(k)
        ELSE <<>>

\* the pattern on the base URL "https://x.com" with no, one and two trailing
\* separators, and on a display name with a period
PatternExamples ==
    /\ \A b \in {"https://x.com", "https://x.com/", "https://x.com//"} :
         PatternUrl(b, "Premier League")
           = <<"https://x.com", "/", "p","r","e","m","i","e","r","-","l","e","a","g","u","e">>
    /\ Slug("2. Bundesliga") = ExpectedSlug("2. Bundesliga")

\* C13: URL resolution follows override > base-URL pattern > unresolved.  A
\* non-empty override is passed verbatim also when a base URL is set;
\* otherwise the URL is the base URL without trailing separators, one "/" and
\* the slug of the display name; with neither, the league is not passed to
\* the extractor.  Base "https://x.com" and "Premier League" give
\* "https://x.com/premier-league".
C13_UrlPrecedence ==
    /\ (env.mode = "main" /\ spc # "idle")
       => (cur.url = ExpectedUrl(leagues[idx]) /\ cur.url # <<>>)
    /\ \A i \in 1..Len(events) :
         /\ (events[i][1] = "skip") => (ExpectedUrl(events[i][2]) = <<>>)
         /\ (events[i][1] = "call") => (ExpectedUrl(events[i][2]) # <<>>)
    /\ PatternExamples

C13_Witness ==
    /\ env.mode = "main"
    /\ spc = "fetch"
    /\ env.base_url # ""
    /\ env.overrides[get_league_env_var_name(leagues[idx])] # ""
    /\ cur.url = <<env.overrides[get_league_env_var_name(leagues[idx])]>>
    /\ Len(leagues) = 2

\* league k passes the tier filter and the allow-list filter of the run
PassesFilters(k) ==
    /\ (env.tier > 0) => (Info(k).tier = env.tier)
    /\ (env.selected # <<>>)
       => \E n \in 1..Len(env.selected) : env.selected[n] \in {k, Info(k).name}

\* C14: the leagues main processes are the catalog filtered by tier (no
\* filter when the requested tier is not positive) and then by the allow-list
\* (keys or display names; no restriction when it is empty).  No league
\* outside this set is extracted, and a league the allow-list names is left
\* out when its tier is not the requested one.
C14_FilteredSet ==
    /\ (env.mode = "main" /\ mpc # "start")
       => ({leagues[i] : i \in 1..Len(leagues)} = {k \in Keys : PassesFilters(k)})
    /\ \A i \in 1..Len(events) : PassesFilters(events[i][2])
    /\ \A k \in DOMAIN results : PassesFilters(k)
    /\ \A k \in Keys :
         ( /\ env.tier > 0 /\ Info(k).tier # env.tier
           /\ \E n \in 1..Len(env.selected) : env.selected[n] \in {k, Info(k).name} )
         => ( /\ \A i \in 1..Len(leagues) : leagues[i] # k
              /\ ~Called(k)
              /\ k \notin DOMAIN results )

C14_Witness ==
    /\ env.mode = "main"
    /\ mpc = "done"
    /\ env.tier = 1
    /\ env.selected = <<"EFL Championship", "Super Lig">>
    /\ leagues = <<"Super Lig">>
    /\ DOMAIN results = {"Super Lig"}

\* the three entry rules of section 4.1, stated on the entry itself
EntryOk(e) == e.position >= 1 /\ e.points >= 0 /\ e.team_name \notin {"", " "}

\* team names are equal up to surrounding blanks
SameName(a, b) == a = b \/ (a = " A " /\ b = "A")

\* C15: validation of a payload that carries the fields of the schema
\* succeeds when every standings entry has position >= 1, points >= 0 and a
\* team name that is not empty after trimming (an empty standings list
\* included), and the validated standings have the length and the order of
\* the input; validation fails for every payload with an entry that breaks
\* one of the three rules.
C15_ValidationRules ==
    (env.mode = "validate" /\ mpc = "done")
    => LET p == log[1].data
           n == Len(p.standings)
       IN  /\ (RequiredFields \subseteq p.fields /\ \A i \in 1..n : EntryOk(p.standings[i]))
              => ( /\ retval.k = "data"
                   /\ Len(retval.v.standings) = n
                   /\ \A i \in 1..n :
                        /\ retval.v.standings[i].position = p.standings[i].position
                        /\ retval.v.standings[i].points = p.standings[i].points
                        /\ SameName(p.standings[i].team_name,
                                    retval.v.standings[i].team_name) )
           /\ (\E i \in 1..n : ~EntryOk(p.standings[i])) => (retval = ValidationError)

C15_Witness ==
    /\ env.mode = "validate"
    /\ mpc = "done"
    /\ retval.k = "data"
    /\ Len(retval.v.standings) = 2
    /\ log[1].data.standings[1] = Entry(2, " A ", 0)
    /\ log[1].data.standings[2] = Entry(1, "B", 25)
    /\ retval.v.standings[1].position = 2
    /\ retval.v.standings[2].team_name = "B"

\* the debug artifacts in the output directory
DebugFiles == {f \in DOMAIN files : f.kind = "debug"}

\* the attempts of the running call whose payload failed validation
FailedValidations ==
    {j \in Attempts : GotPayload(log[j]) /\ SchemaViolated(log[j].data)}

\* C16 (as claimed): there is one debug artifact per failed validation, also
\* when two validations fail within the same timestamp unit.  Stated for an
\* output directory that accepts every write and for the first extraction
\* call of a run (save_to_file on), whose attempts are all in the log.
C16_OneDebugPerFailedValidation ==
    (cur.save /\ env.fs_fault = "none" /\ spc # "idle" /\ DOMAIN results = {})
    => Cardinality(DebugFiles) = Cardinality(FailedValidations)

\* C17 (as claimed): a payload that passes schema validation is never
\* handled as a validation failure: the attempt writes no debug artifact and
\* is not followed by another attempt, also when the write of the success
\* artifact raises an I/O error.
C17_ValidNeverTreatedAsFailure ==
    \A j \in Attempts :
        (GotPayload(log[j]) /\ ~SchemaViolated(log[j].data))
        => ( /\ log[j].dbg = "none"
             /\ DebugFile(cur.league, log[j].at) \in DOMAIN files
                => files[DebugFile(cur.league, log[j].at)] # log[j].data
             /\ j = Len(log)
             /\ spc \notin {"fetch", "sleep"} )

\* C18 (as claimed): pacing delays occur only between two extraction calls:
\* when the batch has reached its summary, every pacing delay was followed by
\* a further extraction call, also when the trailing leagues of the filtered
\* set are unconfigured and skipped.
C18_PaceOnlyBetweenCalls ==
    (env.mode = "main" /\ env.OPENAI_API_KEY /\ mpc \in {"summary", "done"})
    => \A i \in 1..Len(events) :
         (events[i][1] = "pace")
         => \E j \in (i + 1)..Len(events) : events[j][1] = "call"

====
